---- MODULE Spec2Model ----
(***************************************************************************)
(* Model of the App component of the movie application: the fetch effect   *)
(* on [query] with its AbortController, the selection handlers and the     *)
(* three conditional renders of the result box, and the watched list with  *)
(* its persistence to localStorage.                                        *)
(*                                                                         *)
(* Granularity.  One action is one turn of the browser's event loop: a     *)
(* user event with the render and the effects it triggers, or one          *)
(* continuation of the async function fetchMovies after an await.          *)
(* controller.abort() rejects the pending promise; the continuation of     *)
(* the aborted fetchMovies is a microtask that runs after the turn that    *)
(* aborted it and before any other event, which the microtasks queue       *)
(* models.                                                                 *)
(*                                                                         *)
(* Spec is the search and selection side of one mounted App whose watched  *)
(* list stays empty; SpecWatched is the watched list over page loads, with *)
(* one search per load to open the detail view.                            *)
(***************************************************************************)
EXTENDS Integers, Sequences, FiniteSets, TLC

\* ---------------------------------------------------------------- bounds
\* number of fetch requests one behaviour may issue
MaxRequests == 3

\* number of records the watched list may grow to
MaxWatched == 2

\* number of page reloads one behaviour may make
MaxLoads == 1

\* ---------------------------------------------------------------- inputs
\* the values the search input can take; "" is the cleared input
Queries == {"", "a", "ab"}

\* identifiers of the movies the API may return
MovieIds == {"tt1", "tt2"}

\* data.Search of a successful response, in response order
SearchResults == {<<"tt1">>, <<"tt2", "tt1">>}

\* the parsed body of a response: data of `await response.json()`
Payloads ==
    {[Response |-> "True", Search |-> s] : s \in SearchResults}
        \cup {[Response |-> "False", Search |-> <<>>]}

\* selectedId of useState(null)
null == "null"

\* ---------------------------------------------------------------- errors
\* new Error("Something went wrong while fetching movies")
HttpError ==
    [name |-> "Error", message |-> "Something went wrong while fetching movies"]

\* new Error("Movie not found")
NotFoundError == [name |-> "Error", message |-> "Movie not found"]

\* the rejection of fetch / response.json() once the signal is aborted
AbortError == [name |-> "AbortError", message |-> "The user aborted a request."]

\* the rejections of fetch on a network failure: a TypeError whose message
\* is the browser's
NetworkErrors ==
    {[name |-> "TypeError", message |-> "Failed to fetch"],
     [name |-> "TypeError", message |-> "Load failed"]}

\* the rejection of response.json() on a body that is not JSON
JsonSyntaxError ==
    [name |-> "SyntaxError", message |-> "Unexpected token < in JSON at position 0"]

VARIABLES
    movies,      \* useState([])
    isLoading,   \* useState(false)
    error,       \* useState("")
    query,       \* useState("")
    selectedId,  \* useState(null)
    reqs,        \* the calls of fetchMovies, in the order they were issued
    cleanup,     \* the request whose controller the effect's cleanup aborts, 0: none
    microtasks,  \* aborted calls of fetchMovies whose rejection is not yet delivered
    hist,        \* the last two user operations on the selection (history)
    phase,       \* "start": not rendered yet, "mounted", "unmounted", "crashed"
    watched,     \* useState(initializer reading localStorage)
    storage,     \* localStorage item "watched": a JSON text as tokens, <<>>: no item
    wlast,       \* the last operation on the watched list (history)
    loads        \* page reloads so far

fetchVars == <<movies, isLoading, error>>
storeVars == <<watched, storage, wlast, loads>>
vars ==
    <<movies, isLoading, error, query, selectedId, reqs, cleanup, microtasks, hist,
      phase, watched, storage, wlast, loads>>

\* ---------------------------------------------------------------- helpers
Range(s) == {s[i] : i \in DOMAIN s}

\* a call of fetchMovies suspended at an await
Pending(r) == r \in DOMAIN reqs /\ reqs[r].pc # "done"

\* the call of fetchMovies made by the effect of the current query
Current(r) == r # 0 /\ r = cleanup

\* what a call of fetchMovies ended with (history): kind is "pending", "ok",
\* "fail" or "abort"; cause tells the failures apart
NoOutcome == [kind |-> "pending", cause |-> "", search |-> <<>>, msg |-> ""]

\* a call of fetchMovies at its first await; before is the movies list at the call
NewRequest(q) ==
    [query |-> q, pc |-> "fetch", aborted |-> FALSE, before |-> movies, out |-> NoOutcome]

NoOp == [op |-> "none", id |-> null, before |-> null]

NoHist == <<NoOp, NoOp>>

\* ---------------------------------------------------------------- render
showLoader == isLoading

showResults == ~isLoading /\ error = ""

showError == error # ""

\* ---------------------------------------------------------------- storage
\* a watched record; of its fields the model keeps the identifier
Record(id) == [imdbID |-> id]

\* JSON.stringify(watched): the text of an array, as tokens
JSONstringify(w) == <<"[">> \o [i \in 1..Len(w) |-> w[i].imdbID] \o <<"]">>

\* localStorage.getItem("watched") is null or "": storedValue is falsy
Falsy(text) == text = <<>>

\* JSON.parse(text) returns an array
IsArrayText(text) ==
    /\ Len(text) >= 2
    /\ text[1] = "["
    /\ text[Len(text)] = "]"
    /\ \A i \in 2..(Len(text) - 1) : text[i] \in MovieIds

\* JSON.parse(text) returns a value that is no array
IsObjectText(text) == text = <<"{", "}">>

\* JSON.parse(text) returns without throwing
Parseable(text) == IsArrayText(text) \/ IsObjectText(text)

\* JSON.parse of the text of an array
JSONparse(text) == [i \in 1..(Len(text) - 2) |-> Record(text[i + 1])]

\* what the item "watched" may hold when the page is first loaded: nothing, a
\* truncated text, the text of an object, the text of a list
StoredValues ==
    {<<>>, <<"[", "tt1">>, <<"{", "}">>}
        \cup {JSONstringify(w) : w \in {<<>>, <<Record("tt2")>>}}

NoWatchedOp == [op |-> "none", id |-> null, before |-> <<>>, stored |-> <<>>]

\* ---------------------------------------------------------------- state
\* the values of the useState calls whose initial value is a constant
InitialState ==
    /\ movies = <<>>
    /\ isLoading = FALSE
    /\ error = ""
    /\ query = ""
    /\ selectedId = null
    /\ reqs = <<>>
    /\ cleanup = 0
    /\ microtasks = <<>>
    /\ hist = NoHist

\* the App after its first render and effects, with no item in localStorage:
\* the effect on [watched] has stored the empty list
Init ==
    /\ InitialState
    /\ phase = "mounted"
    /\ watched = <<>>
    /\ storage = JSONstringify(<<>>)
    /\ wlast = [op |-> "load", id |-> null, before |-> <<>>, stored |-> <<>>]
    /\ loads = 0

\* a page about to render the App for the first time
InitWatched ==
    /\ InitialState
    /\ phase = "start"
    /\ watched = <<>>
    /\ storage \in StoredValues
    /\ wlast = NoWatchedOp
    /\ loads = 0

\* ---------------------------------------------------------------- selection
\* an updater that does not toggle
handleSelectNoToggle(sel, id) == id

\* the updater of handleSelectMovie: (selectedId) => id === selectedId ? null : id
handleSelectMovie(sel, id) == IF id = sel THEN null ELSE id

\* a close that leaves the selection
handleCloseKeeps == selectedId

\* handleCloseMovie: setSelectedId(null)
handleCloseMovie == null

Push(op) == <<hist[2], op>>

\* ---------------------------------------------------------------- fetch effect
\* a cleanup that does not abort
AbortForgotten(rs, c) == rs

\* controller.abort() of the effect's cleanup; c = 0: the effect returned no cleanup
Abort(rs, c) == IF c = 0 THEN rs ELSE [rs EXCEPT ![c].aborted = TRUE]

\* the cleanup of the previous effect, run before the effect of the new query:
\* the rejection of a call it aborts at an await is queued as a microtask
Cleanup(rs) ==
    /\ microtasks' =
          IF cleanup # 0 /\ reqs[cleanup].pc # "done" /\ rs[cleanup].aborted
          THEN <<cleanup>> ELSE <<>>

\* fetchMovies without the reset of the error
StartFetchKeepsError == isLoading' = TRUE /\ UNCHANGED <<error, movies>>

\* the head of fetchMovies: setIsLoading(true); setError("")
StartFetch == isLoading' = TRUE /\ error' = "" /\ UNCHANGED movies

\* an empty-query branch that leaves the error
EmptyQueryKeepsError == movies' = <<>> /\ UNCHANGED <<error, isLoading>>

\* if (!query.length) { setMovies([]); setError(""); return; }
EmptyQueryBranch == movies' = <<>> /\ error' = "" /\ UNCHANGED isLoading

\* a catch without the AbortError test
CatchAll(err) == error' = err.message

\* a catch that shows one message for every failure
CatchGeneric(err) ==
    error' = IF err.name # "AbortError" THEN "Something went wrong" ELSE error

\* catch (err) { if (err.name !== "AbortError") setError(err.message) }
Catch(err) == error' = IF err.name # "AbortError" THEN err.message ELSE error

\* no finally block
FinallyMissing == UNCHANGED isLoading

\* finally { setIsLoading(false) }
Finally == isLoading' = FALSE

\* a failure that also empties the list
ThrowEmptiesMovies(err) == Catch(err) /\ Finally /\ movies' = <<>>

\* a throw inside the try block: catch, then finally; setMovies is not reached
Throw(err) == Catch(err) /\ Finally /\ UNCHANGED movies

\* a success that merges the results into the list
SucceedMerging(data) == movies' = movies \o data.Search /\ error' = "" /\ Finally

\* setMovies(data.Search); setError(""); then finally
Succeed(data) == movies' = data.Search /\ error' = "" /\ Finally

Failed(err, cause) ==
    [kind |-> "fail", cause |-> cause, search |-> <<>>, msg |-> err.message]

Succeeded(data) == [kind |-> "ok", cause |-> "", search |-> data.Search, msg |-> ""]

Aborted == [kind |-> "abort", cause |-> "", search |-> <<>>, msg |-> ""]

\* the state updates of a continuation of fetchMovies: React drops the updates
\* of a component that is no longer mounted
SetState(update) == IF phase = "mounted" THEN update ELSE UNCHANGED fetchVars

Settle(r, out) == reqs' = [reqs EXCEPT ![r].pc = "done", ![r].out = out]

\* setQuery("") from the search input, the render and the effect on [query]
ClearQuery ==
    /\ phase = "mounted"
    /\ microtasks = <<>>
    /\ query # ""
    /\ query' = ""
    /\ LET rs == Abort(reqs, cleanup) IN
          /\ Cleanup(rs)
          /\ reqs' = rs
    /\ EmptyQueryBranch
    /\ cleanup' = 0
    /\ UNCHANGED selectedId
    /\ hist' = Push([op |-> "query", id |-> null, before |-> selectedId])
    /\ UNCHANGED <<phase, storeVars>>

\* setQuery(q) with a non-empty q, the render and the effect on [query]:
\* cleanup of the previous effect, handleCloseMovie(), fetchMovies() up to its
\* first await
ChangeQuery(q) ==
    /\ phase = "mounted"
    /\ microtasks = <<>>
    /\ q # ""
    /\ q # query
    /\ Len(reqs) < MaxRequests
    /\ query' = q
    /\ LET rs == Abort(reqs, cleanup) IN
          /\ Cleanup(rs)
          /\ reqs' = Append(rs, NewRequest(q))
    /\ selectedId' = handleCloseMovie
    /\ StartFetch
    /\ cleanup' = Len(reqs) + 1
    /\ hist' = Push([op |-> "query", id |-> null, before |-> selectedId])
    /\ UNCHANGED <<phase, storeVars>>

\* a call of fetchMovies whose signal is not aborted and that waits at pc
Awaiting(r, pc) ==
    /\ microtasks = <<>>
    /\ r \in DOMAIN reqs
    /\ reqs[r].pc = pc
    /\ ~reqs[r].aborted

\* `await fetch(...)` resolves with a response; !response.ok throws
FetchResolve(r, ok) ==
    /\ Awaiting(r, "fetch")
    /\ IF ok
       THEN /\ reqs' = [reqs EXCEPT ![r].pc = "json"]
            /\ UNCHANGED fetchVars
       ELSE /\ SetState(Throw(HttpError))
            /\ Settle(r, Failed(HttpError, "http"))
    /\ UNCHANGED <<query, selectedId, cleanup, microtasks, hist, phase, storeVars>>

\* `await fetch(...)` rejects: the network failed
FetchReject(r, err) ==
    /\ Awaiting(r, "fetch")
    /\ SetState(Throw(err))
    /\ Settle(r, Failed(err, "network"))
    /\ UNCHANGED <<query, selectedId, cleanup, microtasks, hist, phase, storeVars>>

\* `await response.json()` resolves with data
JsonResolve(r, data) ==
    /\ Awaiting(r, "json")
    /\ IF data.Response = "False"
       THEN /\ SetState(Throw(NotFoundError))
            /\ Settle(r, Failed(NotFoundError, "notfound"))
       ELSE /\ SetState(Succeed(data))
            /\ Settle(r, Succeeded(data))
    /\ UNCHANGED <<query, selectedId, cleanup, microtasks, hist, phase, storeVars>>

\* `await response.json()` rejects: the body is not JSON
JsonReject(r) ==
    /\ Awaiting(r, "json")
    /\ SetState(Throw(JsonSyntaxError))
    /\ Settle(r, Failed(JsonSyntaxError, "json"))
    /\ UNCHANGED <<query, selectedId, cleanup, microtasks, hist, phase, storeVars>>

\* the await of an aborted call rejects with an AbortError
AbortRejection(r) ==
    /\ microtasks # <<>>
    /\ r = Head(microtasks)
    /\ microtasks' = Tail(microtasks)
    /\ SetState(Throw(AbortError))
    /\ Settle(r, Aborted)
    /\ UNCHANGED <<query, selectedId, cleanup, hist, phase, storeVars>>

\* ---------------------------------------------------------------- selection events
\* a click on a movie of MovieList, which is rendered when !isLoading && !error
SelectMovie(id) ==
    /\ phase = "mounted"
    /\ microtasks = <<>>
    /\ showResults
    /\ id \in Range(movies)
    /\ selectedId' = handleSelectMovie(selectedId, id)
    /\ hist' = Push([op |-> "select", id |-> id, before |-> selectedId])
    /\ UNCHANGED <<movies, isLoading, error, query, reqs, cleanup, microtasks>>
    /\ UNCHANGED <<phase, storeVars>>

\* onCloseMovie of MovieDetails, which is rendered when selectedId is set
CloseMovie ==
    /\ phase = "mounted"
    /\ microtasks = <<>>
    /\ selectedId # null
    /\ selectedId' = handleCloseMovie
    /\ hist' = Push([op |-> "close", id |-> null, before |-> selectedId])
    /\ UNCHANGED <<movies, isLoading, error, query, reqs, cleanup, microtasks>>
    /\ UNCHANGED <<phase, storeVars>>

\* ---------------------------------------------------------------- teardown
\* an unmount that runs no cleanup
UnmountWithoutCleanup ==
    /\ phase = "mounted"
    /\ microtasks = <<>>
    /\ phase' = "unmounted"
    /\ UNCHANGED <<fetchVars, query, selectedId, reqs, cleanup, microtasks, hist, storeVars>>

\* the App is unmounted: React runs the cleanup of the effect on [query]
Unmount ==
    /\ phase = "mounted"
    /\ microtasks = <<>>
    /\ phase' = "unmounted"
    /\ LET rs == Abort(reqs, cleanup) IN
          /\ Cleanup(rs)
          /\ reqs' = rs
    /\ cleanup' = 0
    /\ UNCHANGED <<fetchVars, query, selectedId, hist, storeVars>>

\* ---------------------------------------------------------------- specification
Next ==
    \/ ClearQuery
    \/ \E q \in Queries : ChangeQuery(q)
    \/ \E r \in 1..MaxRequests, ok \in BOOLEAN : FetchResolve(r, ok)
    \/ \E r \in 1..MaxRequests, err \in NetworkErrors : FetchReject(r, err)
    \/ \E r \in 1..MaxRequests, data \in Payloads : JsonResolve(r, data)
    \/ \E r \in 1..MaxRequests : JsonReject(r)
    \/ \E r \in 1..MaxRequests : AbortRejection(r)
    \/ \E id \in MovieIds : SelectMovie(id)
    \/ CloseMovie
    \/ Unmount

Spec == Init /\ [][Next]_vars

\* ---------------------------------------------------------------- watched list
\* an add that puts the record first
handleAddFirst(w, movie) == <<movie>> \o w

\* the updater of handleAddWatched: (watched) => [...watched, movie]
handleAddWatched(w, movie) == Append(w, movie)

\* a delete that removes the first record only
handleDeleteHead(w, id) == IF w = <<>> THEN w ELSE Tail(w)

\* the updater of handleDeleteWatched:
\* (watched) => watched.filter((movie) => movie.imdbID !== id)
handleDeleteWatched(w, id) == SelectSeq(w, LAMBDA movie : movie.imdbID # id)

\* an effect that does not write
PersistForgotten(w) == UNCHANGED storage

\* the effect on [watched]: localStorage.setItem("watched", JSON.stringify(watched))
PersistEffect(w) == storage' = JSONstringify(w)

\* the first render of the App: the initializer of the watched state reads
\* localStorage; JSON.parse throws on a text that is no JSON, and the render of
\* WatchedSummary throws on a watched value that is no array; otherwise the
\* effects run: the one on [watched] writes the list back, the one on [query]
\* takes the empty-query branch
Mount ==
    /\ phase = "start"
    /\ wlast' = [op |-> "load", id |-> null, before |-> wlast.before, stored |-> storage]
    /\ IF Falsy(storage)
       THEN /\ phase' = "mounted"
            /\ watched' = <<>>
            /\ PersistEffect(watched')
       ELSE IF Parseable(storage) /\ IsArrayText(storage)
       THEN /\ phase' = "mounted"
            /\ watched' = JSONparse(storage)
            /\ PersistEffect(watched')
       ELSE /\ phase' = "crashed"
            /\ UNCHANGED <<watched, storage>>
    /\ UNCHANGED <<fetchVars, query, selectedId, reqs, cleanup, microtasks, hist, loads>>

\* an add action that leaves the detail view open
MovieDetailsAddStaysOpen ==
    /\ phase = "mounted"
    /\ microtasks = <<>>
    /\ selectedId # null
    /\ Len(watched) < MaxWatched
    /\ watched' = handleAddWatched(watched, Record(selectedId))
    /\ PersistEffect(watched')
    /\ hist' = Push([op |-> "close", id |-> null, before |-> selectedId])
    /\ wlast' = [op |-> "add", id |-> selectedId, before |-> watched, stored |-> storage]
    /\ UNCHANGED <<fetchVars, query, selectedId, reqs, cleanup, microtasks, phase, loads>>

\* the add action of MovieDetails, which is rendered when selectedId is set:
\* onAddWatched with the record of the open movie, then onCloseMovie; the render
\* and the effect on [watched] follow
MovieDetailsAdd ==
    /\ phase = "mounted"
    /\ microtasks = <<>>
    /\ selectedId # null
    /\ Len(watched) < MaxWatched
    /\ watched' = handleAddWatched(watched, Record(selectedId))
    /\ selectedId' = handleCloseMovie
    /\ PersistEffect(watched')
    /\ hist' = Push([op |-> "close", id |-> null, before |-> selectedId])
    /\ wlast' = [op |-> "add", id |-> selectedId, before |-> watched, stored |-> storage]
    /\ UNCHANGED <<fetchVars, query, reqs, cleanup, microtasks, phase, loads>>

\* onDeleteWatched of WatchedMoviesList, which is rendered when no movie is
\* open; the render and the effect on [watched] follow
DeleteWatched(id) ==
    /\ phase = "mounted"
    /\ microtasks = <<>>
    /\ selectedId = null
    /\ watched' = handleDeleteWatched(watched, id)
    /\ PersistEffect(watched')
    /\ wlast' = [op |-> "delete", id |-> id, before |-> watched, stored |-> storage]
    /\ UNCHANGED <<fetchVars, query, selectedId, reqs, cleanup, microtasks, hist, phase, loads>>

\* the page is reloaded: the App and its requests are gone, localStorage stays
Reload ==
    /\ phase = "mounted"
    /\ microtasks = <<>>
    /\ loads < MaxLoads
    /\ loads' = loads + 1
    /\ phase' = "start"
    /\ movies' = <<>>
    /\ isLoading' = FALSE
    /\ error' = ""
    /\ query' = ""
    /\ selectedId' = null
    /\ reqs' = <<>>
    /\ cleanup' = 0
    /\ hist' = NoHist
    /\ watched' = <<>>
    /\ wlast' = [op |-> "reload", id |-> null, before |-> watched, stored |-> storage]
    /\ UNCHANGED <<microtasks, storage>>

\* the watched list over page loads; one search per load opens the detail view
NextWatched ==
    \/ Mount
    \/ ChangeQuery("a")
    \/ \E r \in 1..MaxRequests : FetchResolve(r, TRUE)
    \/ \E r \in 1..MaxRequests, data \in Payloads : JsonResolve(r, data)
    \/ \E id \in MovieIds : SelectMovie(id)
    \/ CloseMovie
    \/ MovieDetailsAdd
    \/ \E id \in MovieIds : DeleteWatched(id)
    \/ Reload

SpecWatched == InitWatched /\ [][NextWatched]_vars

\* ---------------------------------------------------------------- liveness
\* a continuation of some call of fetchMovies runs: a response, a failure or
\* the rejection of an aborted call is delivered
Deliver ==
    \/ \E r \in 1..MaxRequests, ok \in BOOLEAN : FetchResolve(r, ok)
    \/ \E r \in 1..MaxRequests, err \in NetworkErrors : FetchReject(r, err)
    \/ \E r \in 1..MaxRequests, data \in Payloads : JsonResolve(r, data)
    \/ \E r \in 1..MaxRequests : JsonReject(r)
    \/ \E r \in 1..MaxRequests : AbortRejection(r)

\* the search side of one mounted App
NextLive ==
    \/ ClearQuery
    \/ \E q \in Queries : ChangeQuery(q)
    \/ Deliver

\* the search side under the assumption that every call of fetchMovies that
\* waits is eventually continued: the microtask of an aborted call runs at the
\* end of the turn, and every request that is not aborted gets its response
SpecLive == Init /\ [][NextLive]_vars /\ WF_vars(Deliver)

\* ================================================================ claims
Done(r) == r \in DOMAIN reqs /\ reqs[r].pc = "done"

\* C1: a request that was superseded while in flight never writes the movies
\* list or the error: while the request of the current query is in flight the
\* list is the one it started from and the error is empty, and once it has
\* completed the list and the error are its own outcome
RaceFree ==
    \A r \in DOMAIN reqs :
        Current(r) =>
            /\ Pending(r) => movies = reqs[r].before /\ error = ""
            /\ Done(r) /\ reqs[r].out.kind = "ok" =>
                  movies = reqs[r].out.search /\ error = ""
            /\ Done(r) /\ reqs[r].out.kind = "fail" =>
                  movies = reqs[r].before /\ error = reqs[r].out.msg

\* q1 was aborted in flight, q2 has completed with results that are shown
RaceFreeWitness ==
    \E r1, r2 \in DOMAIN reqs :
        /\ r1 < r2
        /\ reqs[r1].out.kind = "abort"
        /\ Current(r2)
        /\ reqs[r2].out.kind = "ok"
        /\ movies = reqs[r2].out.search

\* C2: the completion of a superseded (aborted) request leaves isLoading, error
\* and movies as they were
StaleCompletionSilent ==
    [][\A r \in DOMAIN reqs :
          (reqs[r].aborted /\ reqs[r].pc # "done" /\ reqs'[r].pc = "done")
              => UNCHANGED fetchVars]_vars

ClearQueryIdles ==
    /\ [][query # "" /\ query' = ""
            => movies' = <<>> /\ error' = "" /\ Len(reqs') = Len(reqs)]_vars
    /\ [](query = "" /\ microtasks = <<>>
            => ~isLoading /\ movies = <<>> /\ error = "")

\* the query was cleared while a request that had followed a shown result was
\* in flight
ClearQueryWitness ==
    /\ query = ""
    /\ movies = <<>>
    /\ error = ""
    /\ hist[2].op = "query"
    /\ \E r \in DOMAIN reqs :
          reqs[r].aborted /\ reqs[r].before # <<>> /\ reqs[r].out.kind = "abort"

\* C5: the error is empty or the message of a genuine failure of a request,
\* never the message of an abort
AbortNeverSurfaced ==
    /\ error # AbortError.message
    /\ error = "" \/ \E r \in DOMAIN reqs :
                        reqs[r].out.kind = "fail" /\ reqs[r].out.msg = error

\* a request was aborted in flight and the error of a later failure is shown
AbortNeverSurfacedWitness ==
    \E r1, r2 \in DOMAIN reqs :
        /\ r1 < r2
        /\ reqs[r1].out.kind = "abort"
        /\ reqs[r2].out.kind = "fail"
        /\ error = reqs[r2].out.msg

Count(b) == IF b THEN 1 ELSE 0

\* C6: with a non-empty query exactly one of showLoader, showResults and
\* showError is true
ExactlyOneRender ==
    query # "" => Count(showLoader) + Count(showResults) + Count(showError) = 1

\* a request is loading after an earlier request showed its failure
ExactlyOneRenderWitness ==
    /\ query # ""
    /\ showLoader
    /\ \E r1, r2 \in DOMAIN reqs :
          r1 < r2 /\ reqs[r1].out.kind = "fail" /\ Current(r2) /\ Pending(r2)

\* C7 as stated: with an empty query none of showLoader, showResults and
\* showError is true
IdleShowsNothing == query = "" => ~showLoader /\ ~showResults /\ ~showError

\* C7 amended: with an empty query, once the turn of the change is over,
\* showLoader and showError are false and showResults is true with an empty list
IdleShowsEmptyList ==
    query = "" /\ microtasks = <<>>
        => ~showLoader /\ ~showError /\ showResults /\ movies = <<>>

\* the query was cleared while a request was in flight, and its rejection has
\* been delivered
IdleShowsEmptyListWitness ==
    /\ query = ""
    /\ microtasks = <<>>
    /\ \E r \in DOMAIN reqs : reqs[r].out.kind = "abort" /\ r = Len(reqs)

\* C8 as stated: a failure of the current request by a non-success status or a
\* network failure shows "Something went wrong while fetching movies", one by
\* the not-found marker shows "Movie not found"
FailureMessageFixed ==
    \A r \in DOMAIN reqs :
        Current(r) /\ Done(r) /\ reqs[r].out.kind = "fail" =>
            /\ reqs[r].out.cause \in {"http", "network"}
                  => error = "Something went wrong while fetching movies"
            /\ reqs[r].out.cause = "notfound" => error = "Movie not found"

\* C8 amended: a failure of the current request ends the loading and shows a
\* message: "Something went wrong while fetching movies" for a non-success
\* status, "Movie not found" for the not-found marker, and the message of the
\* rejection itself for a network failure
FailureMessageByKind ==
    \A r \in DOMAIN reqs :
        Current(r) /\ Done(r) /\ reqs[r].out.kind = "fail" =>
            /\ ~isLoading
            /\ showError
            /\ reqs[r].out.cause = "http"
                  => error = "Something went wrong while fetching movies"
            /\ reqs[r].out.cause = "notfound" => error = "Movie not found"
            /\ reqs[r].out.cause = "network"
                  => error \in {e.message : e \in NetworkErrors}

\* the current request failed by a non-success status after an earlier success
FailureMessageWitness ==
    \E r \in DOMAIN reqs :
        /\ Current(r)
        /\ reqs[r].out.kind = "fail"
        /\ reqs[r].out.cause = "http"
        /\ reqs[r].before # <<>>

\* C9: once the current request has succeeded, the movies list is exactly the
\* returned results in response order, the error is empty and isLoading is false
SuccessReplaces ==
    \A r \in DOMAIN reqs :
        Current(r) /\ Done(r) /\ reqs[r].out.kind = "ok" =>
            /\ movies = reqs[r].out.search
            /\ error = ""
            /\ ~isLoading

\* the current request succeeded over a different, non-empty earlier list
SuccessReplacesWitness ==
    \E r \in DOMAIN reqs :
        /\ Current(r)
        /\ reqs[r].out.kind = "ok"
        /\ reqs[r].before # <<>>
        /\ reqs[r].before # reqs[r].out.search
        /\ movies = reqs[r].out.search

\* C10: select(id) closes Open(id) and opens id from Closed or Open(other); two
\* select(id) in a row from a state other than Open(id) end Closed; close() ends
\* Closed
SelectToggles ==
    LET prev == hist[1]
        last == hist[2]
    IN  /\ last.op = "select" =>
              selectedId = IF last.before = last.id THEN null ELSE last.id
        /\ (last.op = "select" /\ prev.op = "select" /\ prev.id = last.id
                /\ prev.before # prev.id) => selectedId = null
        /\ last.op = "close" => selectedId = null

\* two select(id) in a row, the first from Open(other id)
SelectTogglesWitness ==
    /\ hist[1].op = "select"
    /\ hist[2].op = "select"
    /\ hist[1].id = hist[2].id
    /\ hist[1].before \notin {null, hist[1].id}
    /\ selectedId = null

\* C11: a change of the query to a non-empty value closes the selection,
\* whatever movie was open
QueryChangeCloses ==
    [][query' # query /\ query' # "" => selectedId' = null]_vars

\* the query was changed to a non-empty value while a movie was open
QueryChangeClosesWitness ==
    /\ hist[2].op = "query"
    /\ hist[2].before # null
    /\ query # ""
    /\ selectedId = null

\* C17: at the step in which the request of the current query succeeds and
\* replaces the movies list, the selection is Closed
SuccessLeavesClosed ==
    [][\A r \in DOMAIN reqs :
          (Current(r) /\ Pending(r) /\ reqs'[r].out.kind = "ok")
              => selectedId' = null]_vars

OneLiveRequest ==
    /\ \A r \in DOMAIN reqs : Pending(r) /\ ~reqs[r].aborted => Current(r)
    /\ Cardinality({r \in DOMAIN reqs : Pending(r) /\ ~reqs[r].aborted}) <= 1

\* the request of the new query is in flight next to the aborted request of
\* the previous query
OneLiveRequestWitness ==
    \E r1, r2 \in DOMAIN reqs :
        /\ r1 < r2
        /\ Pending(r1)
        /\ reqs[r1].aborted
        /\ Pending(r2)
        /\ Current(r2)

\* C12: no two records of the watched list share an identifier
UniqueIds ==
    \A i, j \in DOMAIN watched : i # j => watched[i].imdbID # watched[j].imdbID

\* C13: the first render never fails: with no item or a corrupt item the
\* watched list starts empty, otherwise it starts as the stored list
StartupNeverFails ==
    wlast.op = "load" =>
        /\ phase = "mounted"
        /\ watched = IF IsArrayText(wlast.stored)
                     THEN JSONparse(wlast.stored) ELSE <<>>

\* C14: while the App is mounted the item "watched" is the serialization of
\* the watched list, after a load, an add and a delete alike
Persisted ==
    phase = "mounted" =>
        /\ storage = JSONstringify(watched)
        /\ IsArrayText(storage)
        /\ JSONparse(storage) = watched

\* a record was added and then deleted: the item holds the empty list
PersistedWitness ==
    /\ phase = "mounted"
    /\ wlast.op = "delete"
    /\ wlast.before = <<Record(wlast.id)>>
    /\ watched = <<>>
    /\ storage = <<"[", "]">>

\* C15: an add puts the record at the end of the watched list, and the App of
\* a reloaded page starts with the list the previous one ended with, in order
RoundTripInOrder ==
    /\ wlast.op = "add" => watched = wlast.before \o <<Record(wlast.id)>>
    /\ (phase = "mounted" /\ wlast.op = "load" /\ loads > 0)
          => watched = wlast.before

\* tt1 was added before tt2 and the page reloaded
RoundTripInOrderWitness ==
    /\ phase = "mounted"
    /\ wlast.op = "load"
    /\ loads > 0
    /\ watched = <<Record("tt1"), Record("tt2")>>

RECURSIVE Without(_, _)
Without(w, id) ==
    IF w = <<>> THEN <<>>
    ELSE IF Head(w).imdbID = id THEN Without(Tail(w), id)
    ELSE <<Head(w)>> \o Without(Tail(w), id)

\* C16: a delete removes every record with the identifier, keeps the others in
\* their order, leaves the list as it was when no record has the identifier,
\* and raises no error
DeleteFilters ==
    wlast.op = "delete" =>
        /\ phase = "mounted"
        /\ \A i \in DOMAIN watched : watched[i].imdbID # wlast.id
        /\ watched = Without(wlast.before, wlast.id)
        /\ (\A i \in DOMAIN wlast.before : wlast.before[i].imdbID # wlast.id)
              => watched = wlast.before

\* the second of two records was deleted and the first is left
DeleteFiltersWitness ==
    /\ wlast.op = "delete"
    /\ Len(wlast.before) = 2
    /\ wlast.before[2].imdbID = wlast.id
    /\ wlast.before[1].imdbID # wlast.id
    /\ watched = <<wlast.before[1]>>

FailureKeepsMovies ==
    /\ [](\A r \in DOMAIN reqs :
            Current(r) /\ Done(r) /\ reqs[r].out.kind = "fail"
                => movies = reqs[r].before /\ error # "")
    /\ [][movies # <<>> /\ movies' = <<>> => query # "" /\ query' = ""]_vars

\* the error of the current request is shown next to the results of an
\* earlier search
FailureKeepsMoviesWitness ==
    \E r \in DOMAIN reqs :
        /\ Current(r)
        /\ reqs[r].out.kind = "fail"
        /\ movies # <<>>
        /\ movies = reqs[r].before
        /\ error = reqs[r].out.msg

\* the state shows the outcome of the last query
ShowsLastOutcome ==
    IF query = ""
    THEN movies = <<>> /\ error = ""
    ELSE \E r \in DOMAIN reqs :
            /\ Current(r)
            /\ Done(r)
            /\ \/ reqs[r].out.kind = "ok" /\ movies = reqs[r].out.search /\ error = ""
               \/ reqs[r].out.kind = "fail" /\ error = reqs[r].out.msg

\* C22: when the query changes have stopped and every request is completed or
\* reported aborted, isLoading becomes false and stays false, and the state
\* shows the outcome of the last query
Settles == <>[](~isLoading /\ ShowsLastOutcome)

\* the last query's request has failed after an earlier one was aborted, and
\* nothing is loading
SettlesWitness ==
    /\ ~isLoading
    /\ microtasks = <<>>
    /\ \E r1, r2 \in DOMAIN reqs :
          /\ r1 < r2
          /\ r2 = Len(reqs)
          /\ reqs[r1].out.kind = "abort"
          /\ Current(r2)
          /\ reqs[r2].out.kind = "fail"
          /\ error = reqs[r2].out.msg

====
